---- MODULE Spec2Model ----
(***************************************************************************)
(* Model of the .env editor of dev-cli-tools (src/src/commands/envset.ts). *)
(* A text is a sequence of one-character strings.  The file system maps    *)
(* each file name of the working directory to its content or to ENOENT.    *)
(* Every command handler (set, get, delete, list, switch) is one action.   *)
(***************************************************************************)
EXTENDS Integers, Sequences, FiniteSets, TLC

VARIABLES
    fs,        \* file name -> content (a text) or ENOENT
    cmd,       \* the last command invocation: [op, key, value, file]
    before,    \* the file system as it was when the last command started
    exitCode,  \* exit status of the last command
    stdout,    \* what the last command printed with console.log
    stderr,    \* the error the last command printed with console.error
    nreads,    \* fs.readFile calls the last command made on its target file
    nwrites,   \* fs.writeFile calls the last command made on its target file
    steps,     \* number of commands run so far
    text,      \* pure-function specification: the text under test
    envMap,    \* pure-function specification: the mapping under test
    arg,       \* pure-function specification: the value given to escapeValue
    output,    \* pure-function specification: the last result
    fop,       \* pure-function specification: the last function applied
    edits,     \* pure-function specification: number of changes made to envMap
    rfile,     \* concurrent sets: the content of the file the processes share
    pc,        \* concurrent sets: process -> where it is in setCommand
    rkey,      \* concurrent sets: process -> the key it sets
    orig,      \* concurrent sets: process -> originalContent (line 184)
    snap,      \* concurrent sets: process -> the content ensureEnvFile got
    result,    \* concurrent sets: process -> what it reported
    wrote,     \* concurrent sets: process -> the content of its last write
    lastWriter, \* concurrent sets: the process that wrote the file last, or 0
    held,      \* concurrent sets: process -> the contents the file has held
               \* since the process started
    rsize,     \* concurrent sets: process -> the file size its readFile took
    hfs,       \* request history: file name -> content of a history file
    hbefore,   \* request history: hfs when the last command started
    acmd,      \* request history: the last apitest invocation
    aexit,     \* request history: its exit status
    asent,     \* request history: HTTP requests it issued
    awarn,     \* request history: whether it printed the history warning
    clock,     \* request history: the time (Date.now()) of the last command
    asteps,    \* request history: number of commands run so far
    tree,      \* cleaner: the directory tree, a set of [path, type]
    cbefore,   \* cleaner: the tree when the last cleaner invocation started
    ccmd,      \* cleaner: the last invocation: project path, options, answer
    cexit,     \* cleaner: its exit status
    junk,      \* cleaner: the junk items it found
    prompted,  \* cleaner: whether it asked for confirmation
    csteps     \* cleaner: number of invocations so far

vars == <<fs, cmd, before, exitCode, stdout, stderr, nreads, nwrites, steps,
          text, envMap, arg, output, fop, edits,
          rfile, pc, rkey, orig, snap, result, wrote, lastWriter, held, rsize,
          hfs, hbefore, acmd, aexit, asent, awarn, clock, asteps,
          tree, cbefore, ccmd, cexit, junk, prompted, csteps>>

cmdVars == <<fs, cmd, before, exitCode, stdout, stderr, nreads, nwrites, steps>>
fmtVars == <<text, envMap, arg, output, fop, edits>>
raceVars == <<rfile, pc, rkey, orig, snap, result, wrote, lastWriter, held, rsize>>
apiVars == <<hfs, hbefore, acmd, aexit, asent, awarn, clock, asteps>>
cleanVars == <<tree, cbefore, ccmd, cexit, junk, prompted, csteps>>

-----------------------------------------------------------------------------
(* Characters *)

NL   == "\n"
CR   == "\r"
TAB  == "\t"
SP   == " "
EQ   == "="
HASH == "#"
DQ   == "\""
SQ   == "'"
BS   == "\\"

\* The characters String.prototype.trim removes that occur in the model.
WhiteSpace == {SP, TAB, NL, CR}

\* The characters "." of a regular expression does not match.
LineTerminators == {NL, CR}

\* The value of a file that does not exist (readFile fails with ENOENT), and of
\* the optional argument originalContent when it is not given.  No text equals
\* it: the elements of a text are single characters.
ENOENT == <<"ENOENT">>
Undefined == <<"undefined">>

-----------------------------------------------------------------------------
(* String primitives of the JavaScript runtime, as the code uses them *)

RECURSIVE TrimStart(_)
TrimStart(s) ==
    IF s # <<>> /\ Head(s) \in WhiteSpace THEN TrimStart(Tail(s)) ELSE s

RECURSIVE TrimEnd(_)
TrimEnd(s) ==
    IF s # <<>> /\ s[Len(s)] \in WhiteSpace
    THEN TrimEnd(SubSeq(s, 1, Len(s) - 1))
    ELSE s

\* String.prototype.trim
Trim(s) == TrimEnd(TrimStart(s))

\* String.prototype.includes, for a one-character needle
Includes(s, c) == \E i \in 1..Len(s) : s[i] = c

\* String.prototype.startsWith / endsWith, for a one-character needle
StartsWith(s, c) == s # <<>> /\ s[1] = c
EndsWith(s, c) == s # <<>> /\ s[Len(s)] = c

\* String.prototype.slice(1, -1)
Slice1(s) == SubSeq(s, 2, Len(s) - 1)

\* Index of the first occurrence of c in s, 0 when there is none.
RECURSIVE IndexFrom(_, _, _)
IndexFrom(s, c, i) ==
    IF i > Len(s) THEN 0
    ELSE IF s[i] = c THEN i
    ELSE IndexFrom(s, c, i + 1)

IndexOf(s, c) == IndexFrom(s, c, 1)

\* content.split('\n'): always at least one element.
RECURSIVE Split(_)
Split(s) ==
    LET i == IndexOf(s, NL) IN
    IF i = 0 THEN <<s>>
    ELSE <<SubSeq(s, 1, i - 1)>> \o Split(SubSeq(s, i + 1, Len(s)))

\* lines.join('\n')
RECURSIVE Join(_)
Join(lines) ==
    IF lines = <<>> THEN <<>>
    ELSE IF Len(lines) = 1 THEN lines[1]
    ELSE lines[1] \o <<NL>> \o Join(Tail(lines))

-----------------------------------------------------------------------------
(* The ordered mapping (a JavaScript Map<string, EnvEntry>): a sequence of   *)
(* [key, value] in insertion order, keys distinct.  The fields entry.key and *)
(* entry.rawLine are never read by the code and are left out.                *)

MapHas(m, k) == \E i \in 1..Len(m) : m[i].key = k

MapGet(m, k) == m[CHOOSE i \in 1..Len(m) : m[i].key = k].value

\* Mutant: a key that is already there moves to the end.
MapSetMoveToEnd(m, k, v) ==
    LET NotK(e) == e.key # k
    IN  Append(SelectSeq(m, NotK), [key |-> k, value |-> v])

\* Mutant: a key that is already there keeps its first value.
MapSetKeepFirst(m, k, v) ==
    IF MapHas(m, k) THEN m ELSE Append(m, [key |-> k, value |-> v])

\* Map.prototype.set: an existing key keeps its place, a new key goes last.
MapSet(m, k, v) ==
    IF MapHas(m, k)
    THEN [i \in 1..Len(m) |-> IF m[i].key = k THEN [key |-> k, value |-> v] ELSE m[i]]
    ELSE Append(m, [key |-> k, value |-> v])

\* Map.prototype.delete
RECURSIVE MapDelete(_, _)
MapDelete(m, k) ==
    IF m = <<>> THEN <<>>
    ELSE IF Head(m).key = k THEN MapDelete(Tail(m), k)
    ELSE <<Head(m)>> \o MapDelete(Tail(m), k)

-----------------------------------------------------------------------------
(* parseEnvContent *)

\* A line that is skipped by the parser and copied by the formatter.
IsCommentOrBlank(line) ==
    LET trimmedLine == Trim(line) IN
    trimmedLine = <<>> \/ StartsWith(trimmedLine, HASH)

\* trimmedLine.match(/^([^=#]+?)=(.*)$/): the first "=" ends group 1, which is
\* not empty and holds no "#"; group 2 is the rest and holds no line
\* terminator.
\* Mutant: a "#" is allowed in the key.
LineMatchHashInKey(trimmedLine) ==
    LET i == IndexOf(trimmedLine, EQ)
        g1 == SubSeq(trimmedLine, 1, i - 1)
        g2 == SubSeq(trimmedLine, i + 1, Len(trimmedLine))
    IN  IF i <= 1 THEN [ok |-> FALSE, g1 |-> <<>>, g2 |-> <<>>]
        ELSE IF \E c \in LineTerminators : Includes(g2, c)
             THEN [ok |-> FALSE, g1 |-> <<>>, g2 |-> <<>>]
        ELSE [ok |-> TRUE, g1 |-> g1, g2 |-> g2]

LineMatch(trimmedLine) ==
    LET i == IndexOf(trimmedLine, EQ)
        g1 == SubSeq(trimmedLine, 1, i - 1)
        g2 == SubSeq(trimmedLine, i + 1, Len(trimmedLine))
    IN  IF i <= 1 THEN [ok |-> FALSE, g1 |-> <<>>, g2 |-> <<>>]
        ELSE IF Includes(g1, HASH) THEN [ok |-> FALSE, g1 |-> <<>>, g2 |-> <<>>]
        ELSE IF \E c \in LineTerminators : Includes(g2, c)
             THEN [ok |-> FALSE, g1 |-> <<>>, g2 |-> <<>>]
        ELSE [ok |-> TRUE, g1 |-> g1, g2 |-> g2]

\* Handle quoted values (lines 59-62).
Unquote(value) ==
    IF (StartsWith(value, DQ) /\ EndsWith(value, DQ))
       \/ (StartsWith(value, SQ) /\ EndsWith(value, SQ))
    THEN Slice1(value)
    ELSE value

RECURSIVE ParseLines(_, _)
ParseLines(lines, m) ==
    IF lines = <<>> THEN m
    ELSE
        LET line == Head(lines)
            trimmedLine == Trim(line)
            match == LineMatch(trimmedLine)
        IN  IF IsCommentOrBlank(line) THEN ParseLines(Tail(lines), m)
            ELSE IF match.ok
                 THEN ParseLines(Tail(lines),
                                 MapSet(m, Trim(match.g1), Unquote(Trim(match.g2))))
            ELSE ParseLines(Tail(lines), m)

parseEnvContent(content) == ParseLines(Split(content), <<>>)

-----------------------------------------------------------------------------
(* escapeValue and formatEnvContent *)

\* value.replace(/"/g, '\\"')
RECURSIVE ReplaceQuotes(_)
ReplaceQuotes(value) ==
    IF value = <<>> THEN <<>>
    ELSE IF Head(value) = DQ THEN <<BS, DQ>> \o ReplaceQuotes(Tail(value))
    ELSE <<Head(value)>> \o ReplaceQuotes(Tail(value))

\* Mutant: the "#" test of line 130 is forgotten.
NeedsQuotesNoHash(value) ==
    Includes(value, SP) \/ Includes(value, EQ)

\* value.includes(' ') || value.includes('=') || value.includes('#')
NeedsQuotes(value) ==
    Includes(value, SP) \/ Includes(value, EQ) \/ Includes(value, HASH)

escapeValue(value) ==
    IF NeedsQuotes(value)
    THEN <<DQ>> \o ReplaceQuotes(value) \o <<DQ>>
    ELSE value

\* `${key}=${escapeValue(entry.value)}`
\* Mutant: the value is written as it is.
EntryLineUnescaped(key, value) == key \o <<EQ>> \o value

EntryLine(key, value) == key \o <<EQ>> \o escapeValue(value)

\* Mutant: the trimmed line is pushed instead of the line.
KeepLineTrimmed(line) == Trim(line)

\* Keep comments and empty lines as-is: newLines.push(line).
KeepLine(line) == line

\* Mutant: a line that is not re-emitted is kept as it was.
DropLineKept(line, newLines) == Append(newLines, line)

\* A line that is no KEY=VALUE line or whose key is not in the mapping: nothing
\* is pushed (lines 96-105 fall through).
DropLine(line, newLines) == newLines

\* The scan of the original lines (lines 86-106): the new lines and the
\* processed keys.
RECURSIVE ScanLines(_, _, _, _)
ScanLines(lines, m, newLines, processedKeys) ==
    IF lines = <<>> THEN [newLines |-> newLines, processedKeys |-> processedKeys]
    ELSE
        LET line == Head(lines)
            trimmedLine == Trim(line)
            match == LineMatch(trimmedLine)
            key == Trim(match.g1)
        IN  IF IsCommentOrBlank(line)
            THEN ScanLines(Tail(lines), m, Append(newLines, KeepLine(line)),
                           processedKeys)
            ELSE IF match.ok /\ MapHas(m, key)
                 THEN ScanLines(Tail(lines), m,
                                Append(newLines, EntryLine(key, MapGet(m, key))),
                                processedKeys \cup {key})
            ELSE ScanLines(Tail(lines), m, DropLine(line, newLines), processedKeys)

\* The entries of m whose key is not in done, one line each (lines 109-113
\* with done = processedKeys, lines 119-121 with done = {}).
RECURSIVE NewEntryLines(_, _)
NewEntryLines(m, done) ==
    IF m = <<>> THEN <<>>
    ELSE IF Head(m).key \in done THEN NewEntryLines(Tail(m), done)
    ELSE <<EntryLine(Head(m).key, Head(m).value)>> \o NewEntryLines(Tail(m), done)

\* if (originalContent): undefined and the empty string are falsy.
Truthy(originalContent) == originalContent # Undefined /\ originalContent # <<>>

formatEnvContent(m, originalContent) ==
    IF Truthy(originalContent)
    THEN LET scan == ScanLines(Split(originalContent), m, <<>>, {})
         IN  Join(scan.newLines \o NewEntryLines(m, scan.processedKeys)) \o <<NL>>
    ELSE Join(NewEntryLines(m, {})) \o <<NL>>

-----------------------------------------------------------------------------
(* The command handlers.  Each takes the file system and its arguments and  *)
(* gives the outcome of the whole invocation: the file system it leaves,    *)
(* the exit status, what it printed, and the readFile and writeFile calls   *)
(* it made.  Input/output errors other than ENOENT are not modelled.        *)

Files == {".env", ".env.production", ".env.development"}

\* Mutant: the copy goes to the development file.
DefaultEnvDevelopment == ".env.development"

DefaultEnv == ".env"

Exists(files, f) == files[f] # ENOENT

\* A line printed by a command.
Msg(kind, key, txt) == [kind |-> kind, key |-> key, text |-> txt]

Outcome(files, code, out, err, r, w) ==
    [fs |-> files, exitCode |-> code, stdout |-> out, stderr |-> err,
     nreads |-> r, nwrites |-> w]

\* Mutant: only --prod creates the missing file.
IsProdOnly(envFile) == envFile = ".env.production"

\* envFile === '.env.production' || envFile === '.env.development'
IsProdOrDev(envFile) ==
    envFile = ".env.production" \/ envFile = ".env.development"

\* Mutant: the "=" test of line 175 is forgotten.
KeyErrorNoEquals(key) ==
    IF key = <<>> \/ Len(Trim(key)) = 0 THEN "KeyEmpty"
    ELSE IF Includes(key, SP) THEN "KeyInvalid"
    ELSE "none"

\* The validation of the key (lines 170-178): the error printed, or "none".
KeyError(key) ==
    IF key = <<>> \/ Len(Trim(key)) = 0 THEN "KeyEmpty"
    ELSE IF Includes(key, SP) \/ Includes(key, EQ) THEN "KeyInvalid"
    ELSE "none"

\* ensureEnvFile: the mapping read from the file; a missing file is created
\* empty.
ensureEnvFile(files, f) ==
    IF Exists(files, f)
    THEN [fs |-> files, envMap |-> parseEnvContent(files[f]), nreads |-> 1, nwrites |-> 0]
    ELSE [fs |-> [files EXCEPT ![f] = <<>>], envMap |-> <<>>, nreads |-> 0, nwrites |-> 1]

\* writeEnvFile
writeEnvFile(files, f, m, originalContent) ==
    [files EXCEPT ![f] = formatEnvContent(m, originalContent)]

\* Mutant: the value is stored as given, not trimmed.
SetEntryUntrimmed(m, key, value) == MapSet(m, key, value)

\* envMap.set(key, {key: key.trim(), value: value.trim()})
SetEntry(m, key, value) == MapSet(m, key, Trim(value))

setCommand(files, key, value, f) ==
    IF KeyError(key) # "none"
    THEN Outcome(files, 1, <<>>, KeyError(key), 0, 0)
    ELSE
        LET originalContent == IF Exists(files, f) THEN files[f] ELSE Undefined
            ensured == ensureEnvFile(files, f)
            keyExists == MapHas(ensured.envMap, key)
            m == SetEntry(ensured.envMap, key, value)
        IN  Outcome(writeEnvFile(ensured.fs, f, m, originalContent), 0,
                    <<Msg(IF keyExists THEN "Updated" ELSE "Added", key, <<>>)>>,
                    "none", 1 + ensured.nreads, ensured.nwrites + 1)

\* The ENOENT branch of delete and get (lines 238-247, 276-285).
MissingFile(files, f) ==
    IF IsProdOrDev(f)
    THEN Outcome([files EXCEPT ![f] = <<>>], 1, <<>>, "KeyNotFoundFileCreated", 1, 1)
    ELSE Outcome(files, 1, <<>>, "FileDoesNotExist", 1, 0)

\* Mutant: the test that the key is there (lines 226-229) is forgotten.
deleteCommandNoCheck(files, key, f) ==
    IF ~Exists(files, f) THEN MissingFile(files, f)
    ELSE Outcome(writeEnvFile(files, f, MapDelete(parseEnvContent(files[f]), key),
                              files[f]),
                 0, <<Msg("Deleted", key, <<>>)>>, "none", 1, 1)

deleteCommand(files, key, f) ==
    IF ~Exists(files, f) THEN MissingFile(files, f)
    ELSE
        LET content == files[f]
            m == parseEnvContent(content)
        IN  IF ~MapHas(m, key)
            THEN Outcome(files, 1, <<>>, "KeyNotFound", 1, 0)
            ELSE Outcome(writeEnvFile(files, f, MapDelete(m, key), content), 0,
                         <<Msg("Deleted", key, <<>>)>>, "none", 1, 1)

getCommand(files, key, f) ==
    IF ~Exists(files, f) THEN MissingFile(files, f)
    ELSE
        LET m == parseEnvContent(files[f])
        IN  IF ~MapHas(m, key)
            THEN Outcome(files, 1, <<>>, "KeyNotFound", 1, 0)
            ELSE Outcome(files, 0, <<Msg("Value", <<>>, MapGet(m, key))>>, "none", 1, 0)

PreviewMax == 50
PreviewCut == 47

\* Mutant: the value is cut at 50 characters before the ellipsis is added.
DisplayValueCutAtMax(value) ==
    IF Len(value) > PreviewMax
    THEN SubSeq(value, 1, PreviewMax) \o <<".", ".", ".">>
    ELSE value

\* entry.value.length > 50 ? entry.value.substring(0, 47) + '...' : entry.value
DisplayValue(value) ==
    IF Len(value) > PreviewMax
    THEN SubSeq(value, 1, PreviewCut) \o <<".", ".", ".">>
    ELSE value

listCommand(files, f) ==
    IF ~Exists(files, f)
    THEN Outcome(files, 1, <<>>, "FileDoesNotExist", 1, 0)
    ELSE
        LET m == parseEnvContent(files[f])
        IN  IF Len(m) = 0
            THEN Outcome(files, 0, <<Msg("NoVariables", <<>>, <<>>)>>, "none", 1, 0)
            ELSE Outcome(files, 0,
                         <<Msg("Header", <<>>, <<>>)>>
                         \o [i \in 1..Len(m) |->
                               Msg("Entry", m[i].key, DisplayValue(m[i].value))]
                         \o <<Msg("Blank", <<>>, <<>>)>>,
                         "none", 1, 0)

\* fs.readdir gives the names in the order of the directory, which nothing
\* fixes: any order of the .env files that exist.
EnvFileOrders(files) ==
    LET present == {g \in Files : Exists(files, g)}
    IN  {o \in [1..Cardinality(present) -> present] :
           \A i, j \in 1..Cardinality(present) : i # j => o[i] # o[j]}

\* Lines 365-369: the header, one line "  - name" for each .env file in the
\* order readdir gave, and an empty line.
AvailableLines(envFiles) ==
    <<Msg("Available", <<>>, <<>>)>>
    \o [i \in 1..Len(envFiles) |-> Msg("File", <<>>, <<envFiles[i]>>)]
    \o <<Msg("Blank", <<>>, <<>>)>>

\* envFiles is what readdir gives, filtered to the names that start with
\* ".env"; it is read only when f is missing.
switchCommand(files, f, envFiles) ==
    IF Exists(files, f)
    THEN Outcome([files EXCEPT ![DefaultEnv] = files[f]], 0,
                 <<Msg("Switched", <<>>, <<>>), Msg("Copied", <<>>, <<>>),
                   Msg("Active", <<>>, <<>>)>>,
                 "none", 1, 1)
    ELSE IF Len(envFiles) = 0
         THEN Outcome([files EXCEPT ![f] = <<>>], 0,
                      <<Msg("Created", <<>>, <<>>), Msg("Note", <<>>, <<>>)>>,
                      "none", 0, 1)
    ELSE Outcome(files, 1, AvailableLines(envFiles), "FileDoesNotExist", 0, 0)

-----------------------------------------------------------------------------
(* Bounds and input sets of the command specification *)

MaxSteps == 2

\* A text of n characters c.
Repeat(c, n) == [i \in 1..n |-> c]

\* The contents .env starts with: the empty file, one key with and without
\* its final newline, the examples of the specification, a duplicate key,
\* spaced and quoted values, a line that is no KEY=VALUE line, an indented
\* comment, values of 51 and of 50 characters.
InitContents ==
    { <<>>,
      <<"A", "=", "1", NL>>,
      <<"A", "=", "1">>,
      <<"A", "=", "1", NL, "B", "=", "2", NL, "C", "=", "3", NL>>,
      <<"#", " ", "n", "o", "t", "e", NL, "A", "=", "1", NL>>,
      <<"A", "=", "1", NL, NL, "B", "=", "2", NL>>,
      <<"A", "=", "1", NL, "B", "=", "2", NL, "A", "=", "3", NL>>,
      <<"A", "=">> \o Repeat("x", PreviewMax + 1) \o <<NL, "B", "=">>
          \o Repeat("y", PreviewMax) \o <<NL>>,
      <<"B", " ", "=", " ", DQ, "x", " ", "y", DQ, NL>>,
      <<"B", "=", SQ, DQ, "x", " ", "y", DQ, SQ, NL>>,
      <<"j", "u", "n", "k", NL, "A", "=", "1", NL>>,
      <<" ", "#", " ", "c", " ", NL, "B", "=", "2">> }

ProdContents == { <<"P", "=", "1", NL>> }

SetKeys ==
    { <<"A">>, <<"Z">>, <<HASH, "A">>,
      <<>>, <<TAB>>, <<"A", SP, "B">>, <<"A", EQ>> }

SetValues == { <<"9">>, <<SP, "a", SP, "b", SP>> }

GetKeys == { <<"A">>, <<"B">> }

\* The keys get is run with: those, and a key that set accepts and that
\* starts with "#".
ReadKeys == GetKeys \cup { <<HASH, "A">> }

\* The files set, list and switch are run on; get and delete are run on
\* every file.
SetFiles == { ".env", ".env.production" }

\* All sequences over S of length 0..n.
RECURSIVE SeqsUpTo(_, _)
SeqsUpTo(S, n) ==
    IF n = 0 THEN {<<>>}
    ELSE LET shorter == SeqsUpTo(S, n - 1)
         IN  shorter \cup {Append(s, x) : s \in {t \in shorter : Len(t) = n - 1}, x \in S}

\* The texts of at most n lines drawn from lineSet, the last line terminated
\* by a newline or not.
TextsOf(lineSet, n) ==
    LET seqs == SeqsUpTo(lineSet, n) \ {<<>>}
    IN  {<<>>} \cup {Join(ls) : ls \in seqs} \cup {Join(ls) \o <<NL>> : ls \in seqs}

-----------------------------------------------------------------------------
(* Bounds and input sets of the pure-function specification *)

MaxFmtLines == 3
MaxEdits == 1
MaxValueLen == 3

FmtLines ==
    { <<"A", "=", "1">>,
      <<"B", "=", "2">>,
      <<"#", " ", "n">>,
      <<>>,
      <<" ", "#", "x", " ">>,
      <<"A", " ", "=", " ", "3">>,
      <<"B", "=", DQ, "x", " ", "y", DQ>>,
      <<"j", "u", "n", "k">> }

FmtTexts == TextsOf(FmtLines, MaxFmtLines)

FmtKeys == { <<"A">>, <<"Z">> }

FmtValues == { <<"1">>, <<"a", " ", "b">>, <<"#", DQ>> }

EscChars == { "a", SP, EQ, HASH, DQ, BS }

EscValues == SeqsUpTo(EscChars, MaxValueLen)

\* Texts of one line A=v, v made of quotes, a letter and a backslash.
QuoteChars == { "a", DQ, SQ, BS }

QuoteTexts == { <<"A", EQ>> \o v : v \in SeqsUpTo(QuoteChars, MaxValueLen) }

\* Texts of one line k=1, k made of a letter, blanks, "=" and "#".
KeyChars == { "A", SP, TAB, EQ, HASH }

KeyTexts == { k \o <<EQ, "1">> : k \in SeqsUpTo(KeyChars, MaxValueLen) }

NoFiles == [f \in Files |-> ENOENT]

NoCmd == [op |-> "none", key |-> <<>>, value |-> <<>>, file |-> ".env"]

\* The command variables while the pure functions are exercised.
CmdIdle ==
    /\ fs = NoFiles
    /\ cmd = NoCmd
    /\ before = NoFiles
    /\ exitCode = 0
    /\ stdout = <<>>
    /\ stderr = "none"
    /\ nreads = 0
    /\ nwrites = 0
    /\ steps = 0

\* The processes that run set at the same time.
Procs == {1, 2}

\* The variables of the concurrent sets while another specification runs.
RaceIdle ==
    /\ rfile = ENOENT
    /\ pc = [p \in Procs |-> "done"]
    /\ rkey = [p \in Procs |-> <<>>]
    /\ orig = [p \in Procs |-> Undefined]
    /\ snap = [p \in Procs |-> Undefined]
    /\ result = [p \in Procs |-> "none"]
    /\ wrote = [p \in Procs |-> Undefined]
    /\ lastWriter = 0
    /\ held = [p \in Procs |-> {}]
    /\ rsize = [p \in Procs |-> 0]

\* The file getHistoryFilePath names, and the one the README names.
HistoryFile == ".apiteset-history.json"
DocumentedHistoryFile == ".apitest-history.json"
HistoryFiles == {HistoryFile, DocumentedHistoryFile}

\* Contents of a history file: none, a JSON array of entries, a JSON value
\* that is no array, a text that is not JSON.  Of the JSON values that are no
\* array, the empty string and an object with the property length 0 have
\* length === 0 (JsonLengthZero); {}, null, a number, a boolean and a string
\* that is not empty do not (JsonObject).
NoHistoryFile == [kind |-> "ENOENT", entries |-> <<>>]
JsonArray(entries) == [kind |-> "array", entries |-> entries]
JsonObject == [kind |-> "object", entries |-> <<>>]
JsonLengthZero == [kind |-> "lengthZero", entries |-> <<>>]
NotJson == [kind |-> "text", entries |-> <<>>]

\* An apitest invocation.  historyOption is what the command line leaves in
\* options.history: FALSE when --no-history is given; noHistory is the option
\* requestCommand gets.
NoApiCmd == [op |-> "none", method |-> "none", urlOk |-> TRUE, body |-> "undefined",
             editor |-> FALSE, historyOption |-> TRUE, noHistory |-> FALSE,
             net |-> "none", action |-> "none", index |-> 0]

\* The variables of the request history while another specification runs.
ApiIdle ==
    /\ hfs = [f \in HistoryFiles |-> NoHistoryFile]
    /\ hbefore = [f \in HistoryFiles |-> NoHistoryFile]
    /\ acmd = NoApiCmd
    /\ aexit = 0
    /\ asent = 0
    /\ awarn = FALSE
    /\ clock = 0
    /\ asteps = 0

NoCleanCmd == [path |-> <<>>, nodeModules |-> FALSE, force |-> FALSE,
               dryRun |-> FALSE, answer |-> "none"]

\* The variables of the cleaner while another specification runs.
CleanIdle ==
    /\ tree = {}
    /\ cbefore = {}
    /\ ccmd = NoCleanCmd
    /\ cexit = 0
    /\ junk = {}
    /\ prompted = FALSE
    /\ csteps = 0

-----------------------------------------------------------------------------
(* Pure-function specification: parse a text, change the mapping, format *)

FmtInit ==
    /\ CmdIdle
    /\ RaceIdle
    /\ ApiIdle
    /\ CleanIdle
    /\ \/ text \in FmtTexts \cup QuoteTexts \cup KeyTexts /\ arg = <<>>
       \/ text = <<>> /\ arg \in EscValues
    /\ envMap = parseEnvContent(text)
    /\ output = Undefined
    /\ fop = "parse"
    /\ edits = 0

\* envMap.set(key, {key, value})
FmtSet(k, v) ==
    /\ fop = "parse"
    /\ edits < MaxEdits
    /\ envMap' = MapSet(envMap, k, v)
    /\ edits' = edits + 1
    /\ UNCHANGED <<text, arg, output, fop>>
    /\ UNCHANGED <<cmdVars, raceVars, apiVars, cleanVars>>

\* envMap.delete(key)
FmtDelete(k) ==
    /\ fop = "parse"
    /\ edits < MaxEdits
    /\ MapHas(envMap, k)
    /\ envMap' = MapDelete(envMap, k)
    /\ edits' = edits + 1
    /\ UNCHANGED <<text, arg, output, fop>>
    /\ UNCHANGED <<cmdVars, raceVars, apiVars, cleanVars>>

\* formatEnvContent(envMap, originalContent)
FmtFormat ==
    /\ fop = "parse"
    /\ output' = formatEnvContent(envMap, text)
    /\ fop' = "format"
    /\ UNCHANGED <<text, envMap, arg, edits>>
    /\ UNCHANGED <<cmdVars, raceVars, apiVars, cleanVars>>

\* formatEnvContent(envMap)
FmtFormatNew ==
    /\ fop = "parse"
    /\ output' = formatEnvContent(envMap, Undefined)
    /\ fop' = "formatNew"
    /\ UNCHANGED <<text, envMap, arg, edits>>
    /\ UNCHANGED <<cmdVars, raceVars, apiVars, cleanVars>>

\* escapeValue(arg)
FmtEscape ==
    /\ fop = "parse"
    /\ output' = escapeValue(arg)
    /\ fop' = "escape"
    /\ UNCHANGED <<text, envMap, arg, edits>>
    /\ UNCHANGED <<cmdVars, raceVars, apiVars, cleanVars>>

FmtNext ==
    \/ \E k \in FmtKeys, v \in FmtValues : FmtSet(k, v)
    \/ \E k \in FmtKeys \cup {<<"B">>} : FmtDelete(k)
    \/ FmtFormat
    \/ FmtFormatNew
    \/ FmtEscape

SpecFmt == FmtInit /\ [][FmtNext]_vars

-----------------------------------------------------------------------------
(* Command specification: a sequence of at most MaxSteps invocations *)

\* The pure-function variables while commands run.
FmtIdle ==
    /\ text = <<>>
    /\ envMap = <<>>
    /\ arg = <<>>
    /\ output = Undefined
    /\ fop = "none"
    /\ edits = 0

Init ==
    /\ fs \in {f \in [Files -> InitContents \cup ProdContents \cup {ENOENT}] :
                 /\ f[".env"] \in InitContents \cup {ENOENT}
                 /\ f[".env.production"] \in ProdContents \cup {ENOENT}
                 /\ f[".env.development"] = ENOENT}
    /\ cmd = NoCmd
    /\ before = fs
    /\ exitCode = 0
    /\ stdout = <<>>
    /\ stderr = "none"
    /\ nreads = 0
    /\ nwrites = 0
    /\ steps = 0
    /\ FmtIdle
    /\ RaceIdle
    /\ ApiIdle
    /\ CleanIdle

\* One invocation with outcome r.
Run(c, r) ==
    /\ steps < MaxSteps
    /\ steps' = steps + 1
    /\ cmd' = c
    /\ before' = fs
    /\ fs' = r.fs
    /\ exitCode' = r.exitCode
    /\ stdout' = r.stdout
    /\ stderr' = r.stderr
    /\ nreads' = r.nreads
    /\ nwrites' = r.nwrites
    /\ UNCHANGED <<fmtVars, raceVars, apiVars, cleanVars>>

Set(k, v, f) ==
    Run([op |-> "set", key |-> k, value |-> v, file |-> f], setCommand(fs, k, v, f))

Delete(k, f) ==
    Run([op |-> "delete", key |-> k, value |-> <<>>, file |-> f], deleteCommand(fs, k, f))

Get(k, f) ==
    Run([op |-> "get", key |-> k, value |-> <<>>, file |-> f], getCommand(fs, k, f))

List(f) ==
    Run([op |-> "list", key |-> <<>>, value |-> <<>>, file |-> f], listCommand(fs, f))

Switch(f) ==
    \E envFiles \in EnvFileOrders(fs) :
        Run([op |-> "switch", key |-> <<>>, value |-> <<>>, file |-> f],
            switchCommand(fs, f, envFiles))

Next ==
    \/ \E k \in SetKeys, v \in SetValues, f \in SetFiles : Set(k, v, f)
    \/ \E k \in GetKeys, f \in Files : Delete(k, f)
    \/ \E k \in ReadKeys, f \in Files : Get(k, f)
    \/ \E f \in SetFiles : List(f)
    \/ \E f \in SetFiles : Switch(f)

Spec == Init /\ [][Next]_vars

-----------------------------------------------------------------------------
(* Properties of the pure functions, checked under SpecFmt *)

\* A well-formed KEY=VALUE line with an unquoted value: a non-empty key with
\* no whitespace, "=" or "#", then "=", then a value with no whitespace, "=",
\* "#" or quote character.
PlainLine(line) ==
    \E i \in 2..Len(line) :
        /\ line[i] = EQ
        /\ \A j \in 1..(i - 1) : line[j] \notin (WhiteSpace \cup {EQ, HASH})
        /\ \A j \in (i + 1)..Len(line) :
              line[j] \notin (WhiteSpace \cup {EQ, HASH, DQ, SQ})

\* A text made only of comment lines, blank lines and plain KEY=VALUE lines.
PlainText(t) ==
    \A i \in 1..Len(Split(t)) :
        IsCommentOrBlank(Split(t)[i]) \/ PlainLine(Split(t)[i])

\* C1 (as the specification states it): formatting the unchanged mapping parsed
\* from a plain text T over T gives back T character for character.
RoundTrip ==
    (fop = "format" /\ edits = 0 /\ PlainText(text)) => output = text

\* C6 (as the specification states it): in the update-in-place case the
\* formatted text ends with exactly one newline: its last character is a
\* newline and the character before it is not.
OneTrailingNewline ==
    (fop = "format" /\ text # <<>>) =>
        /\ EndsWith(output, NL)
        /\ Len(output) >= 2 => output[Len(output) - 1] # NL

\* The key of a KEY=VALUE line.
LineKey(line) == Trim(LineMatch(Trim(line)).g1)

\* The lines of the original text that the formatter keeps: the comment and
\* blank lines, and the KEY=VALUE lines whose key is in the mapping.
KeptLines(t, m) ==
    LET Kept(l) == \/ IsCommentOrBlank(l)
                   \/ LineMatch(Trim(l)).ok /\ MapHas(m, LineKey(l))
    IN  SelectSeq(Split(t), Kept)

\* The lines of a formatted text (which ends with a newline).
OutLines(o) == LET ls == Split(o) IN SubSeq(ls, 1, Len(ls) - 1)

\* C5: when the original content is supplied, every comment or blank line of
\* it is in the output unchanged, in its original order and at its original
\* place among the key lines that are kept: the j-th kept line of the original
\* is the j-th line of the output, verbatim when it is a comment or a blank
\* line, and a line of the same key otherwise.
CommentsPreserved ==
    (fop = "format" /\ text # <<>>) =>
        LET kept == KeptLines(text, envMap)
            out == OutLines(output)
        IN  /\ Len(out) >= Len(kept)
            /\ \A j \in 1..Len(kept) :
                  IF IsCommentOrBlank(kept[j])
                  THEN out[j] = kept[j]
                  ELSE /\ ~IsCommentOrBlank(out[j])
                       /\ LineKey(out[j]) = LineKey(kept[j])

\* Witness of C5: a text with an indented comment line was formatted after a
\* key of it was deleted from the mapping while another key line stayed.
CommentsPreservedWitness ==
    /\ fop = "format"
    /\ edits = 1
    /\ \E i \in 1..Len(Split(text)) :
          LET l == Split(text)[i] IN l # Trim(l) /\ StartsWith(Trim(l), HASH)
    /\ \E i \in 1..Len(Split(text)) :
          LET l == Split(text)[i]
          IN  ~IsCommentOrBlank(l) /\ LineMatch(Trim(l)).ok /\ ~MapHas(envMap, LineKey(l))
    /\ \E i \in 1..Len(Split(text)) :
          LET l == Split(text)[i]
          IN  ~IsCommentOrBlank(l) /\ LineMatch(Trim(l)).ok /\ MapHas(envMap, LineKey(l))

\* Number of double quotes among the first i characters of v.
QuotesUpTo(v, i) == Cardinality({j \in 1..i : v[j] = DQ})

\* C7: escapeValue(v) is v between double quotes, each double quote of v
\* preceded by a backslash, when v holds a space, "=" or "#"; otherwise it is v.
EscapeValueCorrect ==
    fop = "escape" =>
        IF \E i \in 1..Len(arg) : arg[i] \in {SP, EQ, HASH}
        THEN /\ Len(output) = Len(arg) + QuotesUpTo(arg, Len(arg)) + 2
             /\ output[1] = DQ
             /\ output[Len(output)] = DQ
             /\ \A i \in 1..Len(arg) :
                   /\ output[1 + i + QuotesUpTo(arg, i)] = arg[i]
                   /\ arg[i] = DQ => output[i + QuotesUpTo(arg, i)] = BS
        ELSE output = arg

\* Witness of C7: a value with a double quote and a "#" was escaped.
EscapeValueWitness ==
    /\ fop = "escape"
    /\ Includes(arg, DQ)
    /\ Includes(arg, HASH)
    /\ Len(output) = Len(arg) + 3

-----------------------------------------------------------------------------
(* Properties of the commands, checked under Spec *)

\* The file the last command worked on.
Target == cmd.file

\* The lines of a text in which every line is terminated by a newline; the
\* empty text has none.
TerminatedLines(t) ==
    IF t = <<>> THEN <<>> ELSE OutLines(t)

\* A text of plain KEY=VALUE lines, each terminated by a newline.
PlainKeyLines(t) ==
    /\ t # ENOENT
    /\ t # <<>> => EndsWith(t, NL)
    /\ \A i \in 1..Len(TerminatedLines(t)) : PlainLine(TerminatedLines(t)[i])

\* The key of a plain KEY=VALUE line: what precedes its "=".
PlainKey(line) == SubSeq(line, 1, IndexOf(line, EQ) - 1)

DistinctKeys(t) ==
    \A i, j \in 1..Len(TerminatedLines(t)) :
        i # j => PlainKey(TerminatedLines(t)[i]) # PlainKey(TerminatedLines(t)[j])

\* The lines whose key is not k, each followed by a newline.
RECURSIVE WithoutKey(_, _)
WithoutKey(lines, k) ==
    IF lines = <<>> THEN <<>>
    ELSE IF PlainKey(Head(lines)) = k THEN WithoutKey(Tail(lines), k)
    ELSE Head(lines) \o <<NL>> \o WithoutKey(Tail(lines), k)

\* C2 (as the specification states it): a successful set(k, v) followed by the
\* same set(k, v) on the same file leaves the content the first one wrote.
SetIdempotent ==
    [][(/\ cmd.op = "set"
        /\ exitCode = 0
        /\ cmd' = cmd
        /\ exitCode' = 0
        /\ steps' = steps + 1)
       => fs'[Target] = fs[Target]]_vars

\* C3 (as the specification states it): on a file of plain KEY=VALUE lines
\* with distinct keys, each terminated by a newline, a successful delete(k)
\* writes the original content without the line of k and nothing else.
DeleteRemovesOnlyTarget ==
    (/\ cmd.op = "delete"
     /\ exitCode = 0
     /\ PlainKeyLines(before[Target])
     /\ DistinctKeys(before[Target]))
    => fs[Target] = WithoutKey(TerminatedLines(before[Target]), cmd.key)

\* C4 (as the specification states it, the value being the trimmed one that
\* set stores): on a file T of plain KEY=VALUE lines, each terminated by a
\* newline, set(k, v) with k not in T writes T followed by the line
\* k=escapeValue(v) and a newline.
NewKeyAppended ==
    (/\ cmd.op = "set"
     /\ exitCode = 0
     /\ PlainKeyLines(before[Target])
     /\ \A i \in 1..Len(TerminatedLines(before[Target])) :
           PlainKey(TerminatedLines(before[Target])[i]) # cmd.key)
    => fs[Target] =
         before[Target] \o cmd.key \o <<EQ>> \o escapeValue(Trim(cmd.value)) \o <<NL>>

\* C8: get or delete on a file that does not exist exits with status 1 and a
\* not-found error; the file is still missing afterwards, except that
\* .env.production and .env.development are created empty.  No other file
\* changes.
MissingFileNotFound ==
    (cmd.op \in {"get", "delete"} /\ before[Target] = ENOENT) =>
        /\ exitCode = 1
        /\ stdout = <<>>
        /\ IF Target \in {".env.production", ".env.development"}
           THEN /\ fs = [before EXCEPT ![Target] = <<>>]
                /\ stderr = "KeyNotFoundFileCreated"
           ELSE /\ fs = before
                /\ stderr = "FileDoesNotExist"

\* Witness of C8: delete on the missing .env.development created it empty and
\* failed.
MissingFileWitness ==
    /\ cmd.op = "delete"
    /\ Target = ".env.development"
    /\ before[Target] = ENOENT
    /\ fs[Target] = <<>>
    /\ exitCode = 1

\* A key that set must refuse: empty, only whitespace, or holding a space or
\* an "=".
RefusedKey(k) ==
    \/ \A i \in 1..Len(k) : k[i] \in WhiteSpace
    \/ \E i \in 1..Len(k) : k[i] \in {SP, EQ}

\* C9: set with an empty or blank key, or a key holding a space or "=", exits
\* with status 1 before any file access: no read, no write, every file as it
\* was.
InvalidKeyRejected ==
    (cmd.op = "set" /\ RefusedKey(cmd.key)) =>
        /\ exitCode = 1
        /\ stderr \in {"KeyEmpty", "KeyInvalid"}
        /\ stdout = <<>>
        /\ nreads = 0
        /\ nwrites = 0
        /\ fs = before

\* Witness of C9: set with a key holding "=" on a missing file failed and the
\* file is still missing.
InvalidKeyWitness ==
    /\ cmd.op = "set"
    /\ Includes(cmd.key, EQ)
    /\ before[Target] = ENOENT
    /\ fs[Target] = ENOENT
    /\ exitCode = 1

\* C10: set(k, v) with a valid key on a missing file succeeds, reports the key
\* as added, and leaves the file holding exactly the line
\* k=escapeValue(trimmed v) and one newline; no other file changes.
SetCreatesFile ==
    (cmd.op = "set" /\ ~RefusedKey(cmd.key) /\ before[Target] = ENOENT) =>
        /\ exitCode = 0
        /\ stdout = <<Msg("Added", cmd.key, <<>>)>>
        /\ fs[Target] = cmd.key \o <<EQ>> \o escapeValue(Trim(cmd.value)) \o <<NL>>
        /\ Len(Split(fs[Target])) = 2
        /\ \A g \in Files \ {Target} : fs[g] = before[g]

\* Witness of C10: set of a value with surrounding and inner spaces created
\* the missing file.
SetCreatesFileWitness ==
    /\ cmd.op = "set"
    /\ cmd.key = <<"Z">>
    /\ cmd.value = <<SP, "a", SP, "b", SP>>
    /\ before[Target] = ENOENT
    /\ fs[Target] = <<"Z", EQ, DQ, "a", SP, "b", DQ, NL>>
    /\ exitCode = 0

\* The numbers of the lines of text t that are KEY=VALUE lines of key k.
KeyLines(t, k) ==
    LET ls == Split(t)
    IN  { i \in 1..Len(ls) :
            /\ ~IsCommentOrBlank(ls[i])
            /\ LineMatch(Trim(ls[i])).ok
            /\ LineKey(ls[i]) = k }

\* The keys that have a KEY=VALUE line in text t.
KeysOf(t) ==
    LET ls == Split(t)
    IN  { LineKey(ls[i]) :
            i \in { j \in 1..Len(ls) :
                      /\ ~IsCommentOrBlank(ls[j])
                      /\ LineMatch(Trim(ls[j])).ok } }

Largest(S) == CHOOSE i \in S : \A j \in S : j <= i
Smallest(S) == CHOOSE i \in S : \A j \in S : i <= j

\* The value of the last line of key k in text t: what follows the first "=",
\* trimmed, without one layer of wrapping quotes.
LastValue(t, k) ==
    LET line == Trim(Split(t)[Largest(KeyLines(t, k))])
        raw == Trim(SubSeq(line, IndexOf(line, EQ) + 1, Len(line)))
    IN  IF /\ Len(raw) >= 1
           /\ raw[1] \in {DQ, SQ}
           /\ raw[Len(raw)] = raw[1]
        THEN SubSeq(raw, 2, Len(raw) - 1)
        ELSE raw

\* C11: get(k) on an existing file that has a line of key k prints the value
\* of the last such line, trimmed and without one layer of wrapping quotes,
\* and nothing else; it exits with status 0 and writes no file.
GetPrintsLastValue ==
    (/\ cmd.op = "get"
     /\ before[Target] # ENOENT
     /\ KeyLines(before[Target], cmd.key) # {})
    => /\ exitCode = 0
       /\ stdout = <<Msg("Value", <<>>, LastValue(before[Target], cmd.key))>>
       /\ stderr = "none"
       /\ nwrites = 0
       /\ fs = before

\* Witness of C11: get(A) on a file with the lines A=1, B=2, A=3 printed 3.
GetPrintsLastValueWitness ==
    /\ cmd.op = "get"
    /\ cmd.key = <<"A">>
    /\ before[Target] = <<"A", EQ, "1", NL, "B", EQ, "2", NL, "A", EQ, "3", NL>>
    /\ stdout = <<Msg("Value", <<>>, <<"3">>)>>
    /\ exitCode = 0

\* C12: after a successful delete(k) the rewritten file has no line of key k
\* left, and its keys are those the file had before, k excepted.
DeleteRemovesKey ==
    (cmd.op = "delete" /\ exitCode = 0) =>
        /\ KeyLines(fs[Target], cmd.key) = {}
        /\ KeysOf(fs[Target]) = KeysOf(before[Target]) \ {cmd.key}
        /\ LET m == parseEnvContent(fs[Target])
           IN  { m[i].key : i \in 1..Len(m) } = KeysOf(before[Target]) \ {cmd.key}

\* Witness of C12: delete(A) on a file with two lines of key A and one of key
\* B left B alone.
DeleteRemovesKeyWitness ==
    /\ cmd.op = "delete"
    /\ cmd.key = <<"A">>
    /\ exitCode = 0
    /\ Cardinality(KeyLines(before[Target], <<"A">>)) = 2
    /\ KeysOf(fs[Target]) = {<<"B">>}

\* C13: get(k) or delete(k) on an existing file that has no line of key k
\* exits with status 1 and a key-not-found error, prints nothing, and writes
\* no file: every file is as it was.
AbsentKeyNotFound ==
    (/\ cmd.op \in {"get", "delete"}
     /\ before[Target] # ENOENT
     /\ KeyLines(before[Target], cmd.key) = {})
    => /\ exitCode = 1
       /\ stderr = "KeyNotFound"
       /\ stdout = <<>>
       /\ nwrites = 0
       /\ fs = before

\* Witness of C13: delete(B) on the file A=1 failed and left the file.
AbsentKeyNotFoundWitness ==
    /\ cmd.op = "delete"
    /\ cmd.key = <<"B">>
    /\ before[Target] = <<"A", EQ, "1", NL>>
    /\ fs[Target] = <<"A", EQ, "1", NL>>
    /\ exitCode = 1

\* The lines of text t that a set keeps: comment lines, blank lines and
\* KEY=VALUE lines.
LinesSetKeeps(t) ==
    LET Kept(l) == IsCommentOrBlank(l) \/ LineMatch(Trim(l)).ok
    IN  SelectSeq(Split(t), Kept)

\* C14 (as the specification states it): after a successful set(k, v) on an
\* existing file, every KEY=VALUE line of the original whose key is not k is
\* in the output as it was, at its place among the lines that are kept.
SetKeepsOtherLines ==
    (/\ cmd.op = "set"
     /\ exitCode = 0
     /\ before[Target] # ENOENT)
    => LET kept == LinesSetKeeps(before[Target])
           out == Split(fs[Target])
       IN  \A j \in 1..Len(kept) :
              (/\ ~IsCommentOrBlank(kept[j])
               /\ LineKey(kept[j]) # cmd.key)
              => (j <= Len(out) /\ out[j] = kept[j])

\* C15 (as the specification states it): a set, get, delete or list reads the
\* target file at most once and writes it at most once, and a successful set
\* or delete writes it exactly once.
OneReadOneWrite ==
    (steps > 0 /\ cmd.op \in {"set", "get", "delete", "list"}) =>
        /\ nreads <= 1
        /\ nwrites <= 1
        /\ (cmd.op \in {"set", "delete"} /\ exitCode = 0) => nwrites = 1

\* The lines that list printed for the keys.
EntriesPrinted == LET IsEntry(e) == e.kind = "Entry" IN SelectSeq(stdout, IsEntry)

\* C16: list on an existing file prints one line for each key that has a
\* KEY=VALUE line, in the order of the keys' first lines; the preview is the
\* value when the value has at most 50 characters, and otherwise its first 47
\* characters and "..."; no preview is longer than 50 characters.  list on a
\* missing file exits with status 1.  list writes no file.
ListPrintsKeysOnce ==
    cmd.op = "list" =>
        /\ fs = before
        /\ nwrites = 0
        /\ IF before[Target] = ENOENT
           THEN exitCode = 1 /\ stderr = "FileDoesNotExist" /\ EntriesPrinted = <<>>
           ELSE LET t == before[Target]
                    es == EntriesPrinted
                IN  /\ exitCode = 0
                    /\ { es[i].key : i \in 1..Len(es) } = KeysOf(t)
                    /\ \A i, j \in 1..Len(es) :
                          i < j => Smallest(KeyLines(t, es[i].key))
                                     < Smallest(KeyLines(t, es[j].key))
                    /\ \A i \in 1..Len(es) :
                          LET v == LastValue(t, es[i].key)
                              p == es[i].text
                          IN  /\ Len(p) <= PreviewMax
                              /\ IF Len(v) <= PreviewMax THEN p = v
                                 ELSE /\ SubSeq(p, Len(p) - 2, Len(p)) = <<".", ".", ".">>
                                      /\ SubSeq(p, 1, Len(p) - 3) = SubSeq(v, 1, Len(p) - 3)

\* Witness of C16: list printed a value of 51 characters cut to a preview of
\* 50, and then a value of 50 characters whole.
ListPrintsKeysOnceWitness ==
    /\ cmd.op = "list"
    /\ exitCode = 0
    /\ Len(EntriesPrinted) = 2
    /\ Len(LastValue(before[Target], <<"A">>)) = PreviewMax + 1
    /\ EntriesPrinted[1].key = <<"A">>
    /\ Len(EntriesPrinted[1].text) = PreviewMax
    /\ EntriesPrinted[1].text[PreviewMax] = "."
    /\ EntriesPrinted[2].text = Repeat("y", PreviewMax)

\* C18: switch(f) on a file f that exists exits with status 0 and leaves .env
\* with the content of f; f and every other file are as they were.
SwitchCopies ==
    (cmd.op = "switch" /\ before[Target] # ENOENT) =>
        /\ exitCode = 0
        /\ fs[".env"] = before[Target]
        /\ fs[Target] = before[Target]
        /\ \A g \in Files \ {".env"} : fs[g] = before[g]

\* Witness of C18: switch(.env.production) replaced a different .env.
SwitchCopiesWitness ==
    /\ cmd.op = "switch"
    /\ Target = ".env.production"
    /\ before[Target] # ENOENT
    /\ before[".env"] \notin {ENOENT, before[Target]}
    /\ fs[".env"] = before[Target]
    /\ exitCode = 0

-----------------------------------------------------------------------------
(* Concurrent sets: setCommand of several processes on one file, one file
   system call at a time *)

\* The contents the shared file starts with.
RaceContents ==
    { ENOENT,
      <<>>,
      <<"X", EQ, "0", NL>>,
      <<"#", SP, "n", NL, "C", EQ, "3", NL>> }

\* The keys the processes set; the last one is refused.
RaceKeys == { <<"X">>, <<"Y">>, <<"A", SP, "B">> }

\* The value process p sets.
RaceValue(p) == IF p = 1 THEN <<"1">> ELSE <<"2">>

RaceInit ==
    /\ CmdIdle
    /\ FmtIdle
    /\ ApiIdle
    /\ CleanIdle
    /\ rfile \in RaceContents
    /\ pc = [p \in Procs |-> "start"]
    /\ rkey \in [Procs -> RaceKeys]
    /\ orig = [p \in Procs |-> Undefined]
    /\ snap = [p \in Procs |-> Undefined]
    /\ result = [p \in Procs |-> "none"]
    /\ wrote = [p \in Procs |-> Undefined]
    /\ lastWriter = 0
    /\ held = [p \in Procs |-> {}]
    /\ rsize = [p \in Procs |-> 0]

\* The contents the file has held during the invocations that are under way,
\* once it holds content: the invocations that have started and not finished
\* see it.
HeldAfterWrite(content) ==
    [q \in Procs |-> IF pc[q] \in {"start", "done"} THEN held[q]
                     ELSE held[q] \cup {content}]

\* fs.readFile is not one step of the file system: it opens the file, takes
\* its size (fstat), then reads.  With a size that is not 0 it reads at most
\* that many bytes of what the file holds by then; with size 0 it reads to
\* the end of the file.
ReadBytes(size, content) ==
    IF size = 0 \/ size >= Len(content) THEN content
    ELSE SubSeq(content, 1, size)

\* fs.writeFile is not one step either: it opens the file with truncation,
\* then writes the data at the start of the file, over what the file holds by
\* then: bytes another process wrote meanwhile beyond the data stay.
WriteBytes(data, content) ==
    IF Len(data) >= Len(content) THEN data
    ELSE data \o SubSeq(content, Len(data) + 1, Len(content))

\* What set writes at line 201: the mapping read at line 152 with the entry
\* set, formatted over the content read at line 184.
RaceContent(p) ==
    formatEnvContent(SetEntry(parseEnvContent(snap[p]), rkey[p], RaceValue(p)), orig[p])

\* Lines 170-184: the key is validated, then readFile of originalContent
\* opens the file; a missing file leaves originalContent undefined.
RaceStart(p) ==
    /\ pc[p] = "start"
    /\ IF KeyError(rkey[p]) # "none"
       THEN /\ pc' = [pc EXCEPT ![p] = "done"]
            /\ result' = [result EXCEPT ![p] = KeyError(rkey[p])]
       ELSE /\ pc' = [pc EXCEPT ![p] = IF rfile # ENOENT THEN "statOrig" ELSE "access"]
            /\ UNCHANGED result
    /\ held' = [held EXCEPT ![p] = {rfile}]
    /\ UNCHANGED <<rfile, rkey, orig, snap, wrote, lastWriter, rsize,
                   cmdVars, fmtVars, apiVars, cleanVars>>

\* Line 184: readFile takes the size of the file it has opened.
RaceStatOrig(p) ==
    /\ pc[p] = "statOrig"
    /\ rsize' = [rsize EXCEPT ![p] = Len(rfile)]
    /\ pc' = [pc EXCEPT ![p] = "readOrig"]
    /\ UNCHANGED <<rfile, rkey, orig, snap, result, wrote, lastWriter, held,
                   cmdVars, fmtVars, apiVars, cleanVars>>

\* Line 184: readFile reads the bytes of originalContent.
RaceReadOrig(p) ==
    /\ pc[p] = "readOrig"
    /\ orig' = [orig EXCEPT ![p] = ReadBytes(rsize[p], rfile)]
    /\ pc' = [pc EXCEPT ![p] = "access"]
    /\ UNCHANGED <<rfile, rkey, snap, result, wrote, lastWriter, held, rsize,
                   cmdVars, fmtVars, apiVars, cleanVars>>

\* ensureEnvFile, line 150: fs.access tells whether the file is there.
RaceAccess(p) ==
    /\ pc[p] = "access"
    /\ pc' = [pc EXCEPT ![p] = IF rfile # ENOENT THEN "open" ELSE "create"]
    /\ UNCHANGED <<rfile, rkey, orig, snap, result, wrote, lastWriter, held, rsize,
                   cmdVars, fmtVars, apiVars, cleanVars>>

\* ensureEnvFile, line 152: readFile opens the file.  No process removes the
\* file, so it is there.
RaceOpen(p) ==
    /\ pc[p] = "open"
    /\ rfile # ENOENT
    /\ pc' = [pc EXCEPT ![p] = "stat"]
    /\ UNCHANGED <<rfile, rkey, orig, snap, result, wrote, lastWriter, held, rsize,
                   cmdVars, fmtVars, apiVars, cleanVars>>

\* ensureEnvFile, line 152: readFile takes the size of the file it has opened.
RaceStat(p) ==
    /\ pc[p] = "stat"
    /\ rsize' = [rsize EXCEPT ![p] = Len(rfile)]
    /\ pc' = [pc EXCEPT ![p] = "read"]
    /\ UNCHANGED <<rfile, rkey, orig, snap, result, wrote, lastWriter, held,
                   cmdVars, fmtVars, apiVars, cleanVars>>

\* ensureEnvFile, lines 152-153: readFile reads the bytes, and they are
\* parsed.
RaceRead(p) ==
    /\ pc[p] = "read"
    /\ snap' = [snap EXCEPT ![p] = ReadBytes(rsize[p], rfile)]
    /\ pc' = [pc EXCEPT ![p] = "truncate"]
    /\ UNCHANGED <<rfile, rkey, orig, result, wrote, lastWriter, held, rsize,
                   cmdVars, fmtVars, apiVars, cleanVars>>

\* ensureEnvFile, lines 157-158: writeFile of the empty string opens the file
\* with truncation and writes no byte: the file is empty, whatever it held,
\* and the mapping is empty.
RaceCreate(p) ==
    /\ pc[p] = "create"
    /\ rfile' = <<>>
    /\ snap' = [snap EXCEPT ![p] = <<>>]
    /\ wrote' = [wrote EXCEPT ![p] = <<>>]
    /\ lastWriter' = p
    /\ held' = HeldAfterWrite(<<>>)
    /\ pc' = [pc EXCEPT ![p] = "truncate"]
    /\ UNCHANGED <<rkey, orig, result, rsize, cmdVars, fmtVars, apiVars, cleanVars>>

\* Lines 192-201 and 140-142: the entry is set in the mapping, the content is
\* formatted, and writeFile opens the file with truncation: the file is empty
\* until the data is written.
RaceTruncate(p) ==
    /\ pc[p] = "truncate"
    /\ rfile' = <<>>
    /\ held' = [q \in Procs |-> IF q = p THEN held[p] ELSE HeldAfterWrite(<<>>)[q]]
    /\ pc' = [pc EXCEPT ![p] = "write"]
    /\ UNCHANGED <<rkey, orig, snap, result, wrote, lastWriter, rsize,
                   cmdVars, fmtVars, apiVars, cleanVars>>

\* Lines 142 and 203-207: writeFile writes the data, and the outcome is
\* reported.
RaceWrite(p) ==
    /\ pc[p] = "write"
    /\ rfile' = WriteBytes(RaceContent(p), rfile)
    /\ wrote' = [wrote EXCEPT ![p] = RaceContent(p)]
    /\ result' = [result EXCEPT ![p] =
                    IF MapHas(parseEnvContent(snap[p]), rkey[p])
                    THEN "Updated" ELSE "Added"]
    /\ lastWriter' = p
    /\ held' = [q \in Procs |-> IF q = p THEN held[p] ELSE HeldAfterWrite(rfile')[q]]
    /\ pc' = [pc EXCEPT ![p] = "done"]
    /\ UNCHANGED <<rkey, orig, snap, rsize, cmdVars, fmtVars, apiVars, cleanVars>>

RaceNext ==
    \E p \in Procs :
        \/ RaceStart(p)
        \/ RaceStatOrig(p)
        \/ RaceReadOrig(p)
        \/ RaceAccess(p)
        \/ RaceOpen(p)
        \/ RaceStat(p)
        \/ RaceRead(p)
        \/ RaceCreate(p)
        \/ RaceTruncate(p)
        \/ RaceWrite(p)

SpecRace == RaceInit /\ [][RaceNext]_vars

\* Both processes have finished and reported success.
BothSucceeded ==
    \A p \in Procs : pc[p] = "done" /\ result[p] \in {"Added", "Updated"}

\* C17: nothing orders the steps of concurrent sets, and no set fails because
\* of the other: a set whose key is valid ends with success.  When both have
\* finished and the file is what the last writer wrote, it has the last
\* writer's key with the last writer's value, and otherwise exactly the keys
\* of the content the last writer had read, whatever was written since: a
\* key the other set wrote after that read is lost.
LastWriterWins ==
    /\ \A p \in Procs :
          (pc[p] = "done" /\ KeyError(rkey[p]) = "none") =>
              result[p] \in {"Added", "Updated"}
    /\ (BothSucceeded /\ rkey[1] # rkey[2] /\ rfile = wrote[lastWriter]) =>
          /\ LastValue(rfile, rkey[lastWriter]) = RaceValue(lastWriter)
          /\ KeysOf(rfile) = KeysOf(snap[lastWriter]) \cup {rkey[lastWriter]}

\* Witness of C17: both sets reported success, for different keys, and the
\* key of the one that did not write last is not in the file.
LostUpdateWitness ==
    /\ BothSucceeded
    /\ rkey[1] # rkey[2]
    /\ rfile = wrote[lastWriter]
    /\ \E p \in Procs \ {lastWriter} : rkey[p] \notin KeysOf(rfile)

-----------------------------------------------------------------------------
(* Request history of apitest: requestCommand and historyCommand *)

HistoryMax == 100

MaxRequests == 2

\* A history entry; time stands for its id and timestamp (Date.now()).
Entry(time, method, body) == [time |-> time, method |-> method, body |-> body]

\* JSON.stringify leaves out a property whose value is undefined, and reading
\* a property that is not there gives undefined.
JsonStringify(history) ==
    JsonArray([i \in 1..Len(history) |->
                 [history[i] EXCEPT !.body =
                    IF history[i].body = "undefined" THEN "absent" ELSE history[i].body]])

JsonParse(content) ==
    [i \in 1..Len(content.entries) |->
       [content.entries[i] EXCEPT !.body =
          IF content.entries[i].body = "absent" THEN "undefined"
          ELSE content.entries[i].body]]

\* Mutant: the first 100 entries are kept.
KeepFirstEntries(history) ==
    IF Len(history) > HistoryMax THEN SubSeq(history, 1, HistoryMax) ELSE history

\* if (history.length > 100) history = history.slice(-100)
KeepLast(history) ==
    IF Len(history) > HistoryMax
    THEN SubSeq(history, Len(history) - HistoryMax + 1, Len(history))
    ELSE history

\* The file is read and parsed; a missing file and a text that is not JSON
\* give the empty list.  A JSON value that is no array has no push: the outer
\* catch prints the warning and nothing is written.
saveToHistory(files, entry) ==
    LET content == files[HistoryFile]
        history == IF content.kind = "array" THEN JsonParse(content) ELSE <<>>
    IN  IF content.kind \in {"object", "lengthZero"}
        THEN [hfs |-> files, warn |-> TRUE]
        ELSE [hfs |-> [files EXCEPT ![HistoryFile] =
                         JsonStringify(KeepLast(Append(history, entry)))],
              warn |-> FALSE]

\* return JSON.parse(content): the value the file holds, array or not; the
\* empty array when the file is missing or is not JSON.
loadHistory(files) ==
    LET content == files[HistoryFile]
    IN  IF content.kind = "array" THEN JsonArray(JsonParse(content))
        ELSE IF content.kind \in {"object", "lengthZero"} THEN content
        ELSE JsonArray(<<>>)

\* history.length === 0
LengthIsZero(history) ==
    \/ history.kind = "lengthZero"
    \/ history.kind = "array" /\ Len(history.entries) = 0

ApiOutcome(files, code, sent, warn) ==
    [hfs |-> files, exitCode |-> code, sent |-> sent, warn |-> warn]

\* Mutant: the body is not validated.
BodyRejectedNever(method, body, editor) == FALSE

\* Lines 313-342: for POST, PUT and PATCH, JSON.parse of the body must not
\* throw.  The body is "undefined" (none given), "empty" (the empty string),
\* "json" or "bad" (not empty and not JSON).  What the editor returns is
\* always parsed; a body given as an option only when it is truthy, so the
\* empty string passes.
BodyRejected(method, body, editor) ==
    /\ method \in {"POST", "PUT", "PATCH"}
    /\ IF editor THEN body \in {"bad", "empty"} ELSE body = "bad"

\* body is the body after the editor, when the editor is used.  net is what
\* the network does with the request: "ok" (a response comes back) or
\* "error" (the request fails).
requestCommand(files, method, urlOk, body, editor, noHistory, net, now) ==
    IF ~urlOk THEN ApiOutcome(files, 1, 0, FALSE)
    ELSE IF BodyRejected(method, body, editor)
    THEN ApiOutcome(files, 1, 0, FALSE)
    ELSE IF net = "error" THEN ApiOutcome(files, 1, 1, FALSE)
    ELSE IF noHistory THEN ApiOutcome(files, 0, 1, FALSE)
    ELSE LET saved == saveToHistory(files, Entry(now, method, body))
         IN  ApiOutcome(saved.hfs, 0, 1, saved.warn)

\* history --clear: fs.unlink of the history file.
clearHistory(files) ==
    ApiOutcome([files EXCEPT ![HistoryFile] = NoHistoryFile], 0, 0, FALSE)

\* history: the entries are listed, and the user's answers decide what
\* happens next; index is the entry picked.
historyCommand(files, action, index, net, now) ==
    LET history == loadHistory(files)
    IN  IF LengthIsZero(history) THEN ApiOutcome(files, 0, 0, FALSE)
        ELSE IF history.kind # "array" THEN ApiOutcome(files, 1, 0, FALSE)
        ELSE IF action = "replay"
        THEN requestCommand(files, history.entries[index].method, TRUE,
                            history.entries[index].body, FALSE, FALSE, net, now)
        ELSE ApiOutcome(files, 0, 0, FALSE)

\* The entries of a history file the program wrote earlier.
OldEntries(n) == [i \in 1..n |-> [time |-> i, method |-> "GET", body |-> "absent"]]

HistoryContents ==
    { NoHistoryFile, NotJson, JsonObject, JsonLengthZero }
    \cup { JsonArray(OldEntries(n)) : n \in {0, 1, HistoryMax - 1, HistoryMax} }

\* The request subcommands that declare --body and --editor.
BodyMethods == {"POST", "PUT", "PATCH"}

\* The options the callback of a request subcommand passes to requestCommand:
\* body and editor for post, put and patch only, and noHistory:
\* options.noHistory || false, which is false whatever the command line says,
\* since --no-history is stored as options.history.
RequestOptions(method, body, editor, historyOption) ==
    [body |-> IF method \in BodyMethods THEN body ELSE "undefined",
     editor |-> method \in BodyMethods /\ editor,
     noHistory |-> FALSE]

\* The command lines: the subcommand, whether the URL is valid, the body
\* (none, empty, JSON, not JSON; with --editor, what the editor returns),
\* whether --editor is given, whether --no-history is not given, what the
\* network does.  get and delete have no --body and no --editor.
RequestInputs ==
    { <<"GET", TRUE, "undefined", FALSE, TRUE, "ok">>,
      <<"POST", TRUE, "json", FALSE, TRUE, "ok">>,
      <<"POST", TRUE, "bad", FALSE, TRUE, "ok">>,
      <<"POST", TRUE, "empty", FALSE, TRUE, "ok">>,
      <<"PUT", TRUE, "empty", TRUE, TRUE, "ok">>,
      <<"PATCH", TRUE, "bad", TRUE, TRUE, "ok">>,
      <<"DELETE", TRUE, "undefined", FALSE, TRUE, "ok">>,
      <<"GET", FALSE, "undefined", FALSE, TRUE, "ok">>,
      <<"POST", FALSE, "json", FALSE, TRUE, "ok">>,
      <<"GET", TRUE, "undefined", FALSE, FALSE, "ok">>,
      <<"POST", TRUE, "json", FALSE, TRUE, "error">> }

\* The answers given to the prompts of history: the action, whether the
\* newest entry is picked (or the oldest), what the network does.
HistoryInputs ==
    { <<"exit", TRUE, "ok">>,
      <<"cancel", TRUE, "ok">>,
      <<"view", TRUE, "ok">>,
      <<"replay", TRUE, "ok">>,
      <<"replay", FALSE, "ok">>,
      <<"replay", TRUE, "error">> }

ApiInit ==
    /\ CmdIdle
    /\ FmtIdle
    /\ RaceIdle
    /\ CleanIdle
    /\ hfs \in {h \in [HistoryFiles -> HistoryContents] :
                  h[DocumentedHistoryFile] = NoHistoryFile}
    /\ hbefore = hfs
    /\ acmd = NoApiCmd
    /\ aexit = 0
    /\ asent = 0
    /\ awarn = FALSE
    /\ clock = HistoryMax
    /\ asteps = 0

\* One apitest invocation with outcome r.
ApiRun(c, r) ==
    /\ asteps < MaxRequests
    /\ asteps' = asteps + 1
    /\ clock' = clock + 1
    /\ acmd' = c
    /\ hbefore' = hfs
    /\ hfs' = r.hfs
    /\ aexit' = r.exitCode
    /\ asent' = r.sent
    /\ awarn' = r.warn
    /\ UNCHANGED <<cmdVars, fmtVars, raceVars, cleanVars>>

Request(i) ==
    LET options == RequestOptions(i[1], i[3], i[4], i[5])
    IN  ApiRun([NoApiCmd EXCEPT !.op = "request", !.method = i[1], !.urlOk = i[2],
                                !.body = options.body, !.editor = options.editor,
                                !.historyOption = i[5],
                                !.noHistory = options.noHistory, !.net = i[6]],
               requestCommand(hfs, i[1], i[2], options.body, options.editor,
                              options.noHistory, i[6], clock + 1))

HistoryClear ==
    ApiRun([NoApiCmd EXCEPT !.op = "clear"], clearHistory(hfs))

History(i) ==
    LET n == Len(loadHistory(hfs).entries)
        index == IF i[2] THEN n ELSE 1
    IN  ApiRun([NoApiCmd EXCEPT !.op = "history", !.action = i[1],
                                !.index = index, !.net = i[3]],
               historyCommand(hfs, i[1], index, i[3], clock + 1))

ApiNext ==
    \/ \E i \in RequestInputs : Request(i)
    \/ HistoryClear
    \/ \E i \in HistoryInputs : History(i)

SpecApi == ApiInit /\ [][ApiNext]_vars

\* The last command made a request and saved it to the history.
Saved ==
    /\ acmd.op \in {"request", "history"}
    /\ aexit = 0
    /\ asent = 1
    /\ ~acmd.noHistory
    /\ ~awarn

\* The entries a history file holds; none when it is no JSON array.
StoredEntries(content) == IF content.kind = "array" THEN content.entries ELSE <<>>

\* C19: a history file never holds more than 100 entries, and its entries are
\* in the order of their times; a request that is saved becomes the last
\* entry, the entries before it are the former ones in their order, and when
\* that makes more than 100 the oldest are the ones left out.
HistoryBoundedOrdered ==
    /\ \A f \in HistoryFiles :
          LET es == StoredEntries(hfs[f])
          IN  /\ Len(es) <= HistoryMax
              /\ \A i, j \in 1..Len(es) : i < j => es[i].time < es[j].time
    /\ Saved =>
          LET old == StoredEntries(hbefore[HistoryFile])
              new == StoredEntries(hfs[HistoryFile])
              d == Len(old) + 1 - Len(new)
          IN  /\ hfs[HistoryFile].kind = "array"
              /\ Len(new) = IF Len(old) < HistoryMax THEN Len(old) + 1 ELSE HistoryMax
              /\ new[Len(new)].time = clock
              /\ \A i \in 1..(Len(new) - 1) : new[i] = old[i + d]

\* Witness of C19: a request was saved to a history of 100 entries; the
\* history still has 100, the oldest is gone and the request is the last.
HistoryBoundedWitness ==
    /\ Saved
    /\ Len(StoredEntries(hbefore[HistoryFile])) = HistoryMax
    /\ Len(StoredEntries(hfs[HistoryFile])) = HistoryMax
    /\ StoredEntries(hfs[HistoryFile])[1] = StoredEntries(hbefore[HistoryFile])[2]
    /\ StoredEntries(hfs[HistoryFile])[HistoryMax].time = clock

\* C20 (as the specification states it): a request that is saved has its entry
\* as the last one of the file .apitest-history.json, and after history
\* --clear that file does not exist.
HistoryInDocumentedFile ==
    /\ Saved =>
          /\ hfs[DocumentedHistoryFile].kind = "array"
          /\ hfs[DocumentedHistoryFile].entries # <<>>
          /\ hfs[DocumentedHistoryFile].entries[Len(hfs[DocumentedHistoryFile].entries)].time
               = clock
    /\ acmd.op = "clear" => hfs[DocumentedHistoryFile].kind = "ENOENT"

-----------------------------------------------------------------------------
(* The cleaner: findJunkFiles and cleanCommand on a directory tree.  A tree
   is a set of nodes [path, type]; a path is the sequence of the names from
   the top directory down.  Every file-system call succeeds. *)

MaxCleans == 1

\* getJunkFilesAndDirs().directories
JunkDirectories ==
    { "node_modules", "dist", "build", "out", ".cache", "cache", "coverage",
      ".nyc_output", ".next", ".nuxt", ".svelte-kit", ".vite", ".parcel-cache",
      "tmp", "temp", ".tmp", "__pycache__", ".pytest_cache", ".mypy_cache",
      ".ruff_cache" }

\* getJunkFilesAndDirs().filePatterns: the names, and the patterns with "*"
\* as their characters.
ExactFilePatterns == { ".DS_Store", "Thumbs.db" }

StarFilePatterns ==
    { <<"*", ".", "s", "w", "p">>, <<"*", ".", "s", "w", "o">>, <<"*", "~">>,
      <<"*", ".", "l", "o", "g">>, <<"*", ".", "t", "m", "p">>,
      <<"*", ".", "p", "y", "c">> }

\* The characters of the names the trees are made of.
NameChars(n) ==
    CASE n = ".git" -> <<".", "g", "i", "t">>
      [] n = "x.git" -> <<"x", ".", "g", "i", "t">>
      [] n = "node_modules" -> <<"n", "o", "d", "e", "_", "m", "o", "d", "u", "l", "e", "s">>
      [] n = "dist" -> <<"d", "i", "s", "t">>
      [] n = "tmp" -> <<"t", "m", "p">>
      [] n = "src" -> <<"s", "r", "c">>
      [] n = "p" -> <<"p">>
      [] n = "a.log" -> <<"a", ".", "l", "o", "g">>
      [] n = "blog" -> <<"b", "l", "o", "g">>


\* new RegExp('^' + pattern.replace(/\*/g, '.*') + '$').test(name), for a
\* pattern that starts with its only "*": the "." of the pattern is not
\* escaped and stands for any character but a line terminator.
RegexTest(pattern, name) ==
    LET rest == Tail(pattern)
        k == Len(name) - Len(rest)
    IN  /\ k >= 0
        /\ \A i \in 1..k : name[i] \notin LineTerminators
        /\ \A i \in 1..Len(rest) :
              IF rest[i] = "." THEN name[k + i] \notin LineTerminators
              ELSE name[k + i] = rest[i]

\* filePatterns.some(...)
MatchesPattern(n) ==
    \/ n \in ExactFilePatterns
    \/ \E pattern \in StarFilePatterns : RegexTest(pattern, NameChars(n))

\* String.prototype.includes for a text.
IncludesText(s, sub) ==
    \E i \in 1..(Len(s) - Len(sub) + 1) : SubSeq(s, i, i + Len(sub) - 1) = sub

\* path.relative(projectPath, entryPath): the names below the project path,
\* joined by "/".
RECURSIVE JoinNames(_)
JoinNames(ns) ==
    IF ns = <<>> THEN <<>>
    ELSE IF Len(ns) = 1 THEN NameChars(ns[1])
    ELSE NameChars(ns[1]) \o <<"/">> \o JoinNames(Tail(ns))

RelativePath(projectPath, entryPath) ==
    JoinNames(SubSeq(entryPath, Len(projectPath) + 1, Len(entryPath)))

IsPrefix(a, b) == Len(a) <= Len(b) /\ SubSeq(b, 1, Len(a)) = a

EntryName(path) == path[Len(path)]

\* fs.readdir(dirPath, {withFileTypes: true})
Readdir(t, dirPath) ==
    { e \in t : Len(e.path) = Len(dirPath) + 1 /\ IsPrefix(dirPath, e.path) }

\* Mutant: no entry is skipped.
SkippedNever(projectPath, entryPath) == FALSE

\* entry.name === '.git' || relativePath.includes('.git/')
Skipped(projectPath, entryPath) ==
    \/ EntryName(entryPath) = ".git"
    \/ IncludesText(RelativePath(projectPath, entryPath), <<".", "g", "i", "t", "/">>)

\* The directory is one to delete: node_modules only with --node_modules,
\* else any name of the list.
IsJunkDirectory(n, nodeModules) ==
    IF nodeModules THEN n = "node_modules" ELSE n \in JunkDirectories

\* scanDirectory: the junk items found in dirPath and below.  The sizes,
\* which are only printed, are left out, and the items are a set: the order
\* of the list is the order of the directory listings.
RECURSIVE scanDirectory(_, _, _, _)
scanDirectory(t, projectPath, dirPath, nodeModules) ==
    LET Items(e) ==
            IF Skipped(projectPath, e.path) THEN {}
            ELSE IF e.type = "directory"
            THEN IF IsJunkDirectory(EntryName(e.path), nodeModules)
                 THEN {e}
                 ELSE scanDirectory(t, projectPath, e.path, nodeModules)
            ELSE IF ~nodeModules /\ MatchesPattern(EntryName(e.path))
            THEN {e}
            ELSE {}
    IN  UNION { Items(e) : e \in Readdir(t, dirPath) }

findJunkFiles(t, projectPath, nodeModules) ==
    scanDirectory(t, projectPath, projectPath, nodeModules)

\* deleteFileOrDir on every item: the item and all below it are removed.
DeleteItems(t, items) ==
    { e \in t : ~\E j \in items : IsPrefix(j.path, e.path) }

\* Mutant: --dry-run does not stop the deletion.
ShouldDeleteInDryRun(c) == c.force \/ c.answer = "yes"

\* Lines 289-315: nothing is deleted in a dry run; otherwise --force or a yes
\* to the prompt lets the deletion go on.
ShouldDelete(c) == ~c.dryRun /\ (c.force \/ c.answer = "yes")

CleanOutcome(t, code, items, asked) ==
    [tree |-> t, exitCode |-> code, junk |-> items, prompted |-> asked]

\* c.answer is what the user does at the prompt, if it comes: "yes", "no",
\* or "cancel" (the prompt is interrupted; exit status 0).
cleanCommand(t, c) ==
    IF ~\E e \in t : e.path = c.path /\ e.type = "directory"
    THEN CleanOutcome(t, 1, {}, FALSE)
    ELSE
        LET junkItems == findJunkFiles(t, c.path, c.nodeModules)
            asked == junkItems # {} /\ ~c.dryRun /\ ~c.force
        IN  IF junkItems = {} THEN CleanOutcome(t, 0, {}, FALSE)
            ELSE IF ShouldDelete(c)
            THEN CleanOutcome(DeleteItems(t, junkItems), 0, junkItems, asked)
            ELSE CleanOutcome(t, 0, junkItems, asked)

Dir(path) == [path |-> path, type |-> "directory"]
File(path) == [path |-> path, type |-> "file"]

\* The nodes the trees are made of, under the directory p that is always
\* there: a repository directory with a junk name in it, a junk directory
\* with junk in it, a source directory, a directory whose name ends in .git.
TreeNodes ==
    { Dir(<<"p", ".git">>), Dir(<<"p", ".git", "tmp">>),
      Dir(<<"p", "node_modules">>), File(<<"p", "node_modules", "a.log">>),
      Dir(<<"p", "src">>), Dir(<<"p", "src", "dist">>),
      File(<<"p", "src", "blog">>),
      Dir(<<"p", "x.git">>), File(<<"p", "x.git", "a.log">>) }

\* Every node but the top one has its directory in the tree.
WellFormed(t) ==
    \A e \in t : Len(e.path) > 1 => Dir(SubSeq(e.path, 1, Len(e.path) - 1)) \in t

Trees == { {Dir(<<"p">>)} \cup t : t \in { u \in SUBSET TreeNodes : WellFormed(u \cup {Dir(<<"p">>)}) } }

\* The project paths given: the top directory, directories below it, a file,
\* a path that does not exist.
ProjectPaths ==
    { <<"p">>, <<"p", "src">>, <<"p", ".git">>, <<"p", "src", "blog">>, <<"q">> }

\* With --force or --dry-run no prompt comes and there is no answer.
CleanCmds ==
    { c \in [path : ProjectPaths, nodeModules : BOOLEAN, force : BOOLEAN,
             dryRun : BOOLEAN, answer : {"yes", "no", "cancel", "none"}] :
        c.answer = "none" <=> (c.force \/ c.dryRun) }

CleanInit ==
    /\ CmdIdle
    /\ FmtIdle
    /\ RaceIdle
    /\ ApiIdle
    /\ tree \in Trees
    /\ cbefore = tree
    /\ ccmd = NoCleanCmd
    /\ cexit = 0
    /\ junk = {}
    /\ prompted = FALSE
    /\ csteps = 0

\* One cleaner invocation.
Clean(c) ==
    /\ csteps < MaxCleans
    /\ csteps' = csteps + 1
    /\ ccmd' = c
    /\ cbefore' = tree
    /\ tree' = cleanCommand(tree, c).tree
    /\ cexit' = cleanCommand(tree, c).exitCode
    /\ junk' = cleanCommand(tree, c).junk
    /\ prompted' = cleanCommand(tree, c).prompted
    /\ UNCHANGED <<cmdVars, fmtVars, raceVars, apiVars>>

CleanNext == \E c \in CleanCmds : Clean(c)

SpecClean == CleanInit /\ [][CleanNext]_vars

\* C21: the cleaner removes something only when dry-run is off and either
\* --force is set or the prompt was answered yes; with --dry-run, or when the
\* prompt was declined or cancelled, the tree is as it was.
NoDeletionUnlessConfirmed ==
    /\ tree # cbefore => (~ccmd.dryRun /\ (ccmd.force \/ (prompted /\ ccmd.answer = "yes")))
    /\ ccmd.dryRun => tree = cbefore
    /\ (prompted /\ ccmd.answer \in {"no", "cancel"}) => tree = cbefore
    /\ tree \subseteq cbefore

\* Witness of C21: a dry run with --force found junk and removed nothing.
DryRunWitness ==
    /\ ccmd.dryRun
    /\ ccmd.force
    /\ junk # {}
    /\ cexit = 0
    /\ tree = cbefore

\* No item of the junk list lies inside another one.
NoNestedItems ==
    \A i, j \in junk : i # j => ~IsPrefix(i.path, j.path)

\* C30 (as the specification states it): no junk item is a directory named
\* .git or has a directory named .git anywhere above it, and no junk item
\* lies inside another one.
JunkListOutsideGit ==
    /\ \A j \in junk : \A i \in 1..Len(j.path) : j.path[i] # ".git"
    /\ NoNestedItems

\* C30 (amended): below the project path, no junk item is named .git or has
\* a directory named .git above it, and no junk item lies inside another
\* one.
JunkListOutsideGitOfProject ==
    /\ \A j \in junk :
          /\ IsPrefix(ccmd.path, j.path)
          /\ \A i \in (Len(ccmd.path) + 1)..Len(j.path) : j.path[i] # ".git"
    /\ NoNestedItems

\* Witness of C30: the tree has a junk name inside .git and junk inside
\* node_modules; the junk list has node_modules and neither of the two.
JunkListWitness ==
    /\ ccmd.path = <<"p">>
    /\ Dir(<<"p", ".git", "tmp">>) \in cbefore
    /\ File(<<"p", "node_modules", "a.log">>) \in cbefore
    /\ Dir(<<"p", "node_modules">>) \in junk
    /\ Dir(<<"p", ".git", "tmp">>) \notin junk
    /\ File(<<"p", "node_modules", "a.log">>) \notin junk

\* C22 (as the specification states it): a request with an invalid URL, or a
\* POST, PUT or PATCH request whose body is not JSON, the empty body
\* included, exits with a nonzero status, issues no HTTP request and leaves
\* the history files as they were.
InvalidRequestRejected ==
    (/\ acmd.op = "request"
     /\ \/ ~acmd.urlOk
        \/ acmd.method \in {"POST", "PUT", "PATCH"} /\ acmd.body \in {"bad", "empty"})
    => /\ aexit # 0
       /\ asent = 0
       /\ hfs = hbefore

\* C22 (amended): the same for an invalid URL, for a body that is not empty
\* and not JSON, and for any body from the editor that is not JSON; an empty
\* body given as an option is not validated.
InvalidRequestRejectedUnlessEmpty ==
    (/\ acmd.op = "request"
     /\ \/ ~acmd.urlOk
        \/ /\ acmd.method \in {"POST", "PUT", "PATCH"}
           /\ \/ acmd.body = "bad"
              \/ acmd.body = "empty" /\ acmd.editor)
    => /\ aexit = 1
       /\ asent = 0
       /\ ~awarn
       /\ hfs = hbefore

\* Witness of C22: a POST with a body that is not JSON, with history on, was
\* refused and the history of one entry is as it was.
InvalidRequestWitness ==
    /\ acmd.op = "request"
    /\ acmd.method = "POST"
    /\ acmd.urlOk
    /\ acmd.body = "bad"
    /\ ~acmd.noHistory
    /\ aexit = 1
    /\ asent = 0
    /\ Len(StoredEntries(hbefore[HistoryFile])) = 1
    /\ hfs = hbefore

\* C23: in the mapping parsed from a text, a key that is on several lines has
\* one entry; its value is that of its last line and its place among the
\* entries is that of its first line.  (Every key of the text has one entry,
\* the entries are in the order of the keys' first lines, and each value is
\* that of the key's last line.)
DuplicateKeysParsed ==
    (fop = "parse" /\ edits = 0) =>
        /\ { envMap[i].key : i \in 1..Len(envMap) } = KeysOf(text)
        /\ \A i, j \in 1..Len(envMap) :
              i < j => Smallest(KeyLines(text, envMap[i].key))
                         < Smallest(KeyLines(text, envMap[j].key))
        /\ \A i \in 1..Len(envMap) :
              envMap[i].value = LastValue(text, envMap[i].key)

\* Witness of C23: the text A=1, B=2, A = 3 was parsed: A comes first, with
\* the value 3.
DuplicateKeysWitness ==
    /\ fop = "parse"
    /\ edits = 0
    /\ text = <<"A", EQ, "1", NL, "B", EQ, "2", NL, "A", SP, EQ, SP, "3">>
    /\ envMap = <<[key |-> <<"A">>, value |-> <<"3">>],
                  [key |-> <<"B">>, value |-> <<"2">>]>>

\* The entries of the mapping whose key is on no KEY=VALUE line of the text.
FreshEntries(t, m) ==
    LET keys == KeysOf(t)
        Fresh(e) == e.key \notin keys
    IN  SelectSeq(m, Fresh)

\* C24: the output of the update-in-place format is, line by line: for each
\* line of the original that is a comment, a blank line or a KEY=VALUE line
\* whose key is in the mapping, in order, the line itself for a comment or a
\* blank line and KEY=escapeValue(current value) for a KEY=VALUE line; then
\* one line KEY=escapeValue(value) for each entry of the mapping whose key is
\* on no original line, in the order of the mapping.  Nothing else is in the
\* output: lines without "=" and lines of keys that are not in the mapping
\* are gone.
FormatEqualsReference ==
    (fop = "format" /\ text # <<>>) =>
        LET kept == KeptLines(text, envMap)
            fresh == FreshEntries(text, envMap)
            reference ==
                [j \in 1..(Len(kept) + Len(fresh)) |->
                   IF j > Len(kept)
                   THEN fresh[j - Len(kept)].key \o <<EQ>>
                          \o escapeValue(fresh[j - Len(kept)].value)
                   ELSE IF IsCommentOrBlank(kept[j]) THEN kept[j]
                   ELSE LineKey(kept[j]) \o <<EQ>>
                          \o escapeValue(MapGet(envMap, LineKey(kept[j])))]
        IN  output = Join(reference) \o <<NL>>

\* Witness of C24: a text with a line without "=" and a line of key A was
\* formatted with a mapping to which Z was added: the output is the line of A
\* and the line of Z.
FormatReferenceWitness ==
    /\ fop = "format"
    /\ text = <<"j", "u", "n", "k", NL, "A", EQ, "1">>
    /\ MapHas(envMap, <<"Z">>)
    /\ output = <<"A", EQ, "1", NL, "Z", EQ, "1", NL>>

\* The value of key k as it stands in text t: what follows the first "=" on
\* the last line of k, trimmed.
RawValue(t, k) ==
    LET line == Trim(Split(t)[Largest(KeyLines(t, k))])
    IN  Trim(SubSeq(line, IndexOf(line, EQ) + 1, Len(line)))

\* A value wrapped in a pair of double quotes or a pair of single quotes.
WrappedInQuotes(raw) ==
    /\ Len(raw) >= 2
    /\ raw[1] \in {DQ, SQ}
    /\ raw[Len(raw)] = raw[1]

\* C25 (as the specification states it): the parsed value is the trimmed
\* value without its first and last character when it is wrapped in a pair of
\* double quotes or of single quotes, and the trimmed value itself otherwise:
\* a lone quote character and mismatched quotes are kept, and a backslash is
\* never taken out.
QuotesStrippedWhenWrapped ==
    (fop = "parse" /\ edits = 0) =>
        \A i \in 1..Len(envMap) :
            LET raw == RawValue(text, envMap[i].key)
            IN  envMap[i].value =
                    IF WrappedInQuotes(raw) THEN SubSeq(raw, 2, Len(raw) - 1)
                    ELSE raw

\* The key a line gives when it is a KEY=VALUE line: what precedes the first
\* "=" of the trimmed line, trimmed.
KeyBeforeEquals(line) ==
    Trim(SubSeq(Trim(line), 1, IndexOf(Trim(line), EQ) - 1))

\* C26: every key of a parsed mapping is non-empty, neither starts nor ends
\* with whitespace, has no "=" and no "#", is the key of one entry only, and
\* comes from a line of the text that is not blank, is no comment and has an
\* "="; the empty text gives the empty mapping.
ParsedKeysWellFormed ==
    (fop = "parse" /\ edits = 0) =>
        /\ text = <<>> => envMap = <<>>
        /\ \A i \in 1..Len(envMap) :
              LET k == envMap[i].key
              IN  /\ k # <<>>
                  /\ k[1] \notin WhiteSpace
                  /\ k[Len(k)] \notin WhiteSpace
                  /\ ~Includes(k, EQ)
                  /\ ~Includes(k, HASH)
                  /\ \A j \in 1..Len(envMap) : j # i => envMap[j].key # k
                  /\ \E n \in 1..Len(Split(text)) :
                        LET line == Split(text)[n]
                        IN  /\ Trim(line) # <<>>
                            /\ Trim(line)[1] # HASH
                            /\ Includes(line, EQ)
                            /\ k = KeyBeforeEquals(line)

\* Witness of C26: the line "A A=1" gave the one key "A A".
ParsedKeysWitness ==
    /\ fop = "parse"
    /\ edits = 0
    /\ text = <<"A", SP, "A", EQ, "1">>
    /\ envMap = <<[key |-> <<"A", SP, "A">>, value |-> <<"1">>]>>

-----------------------------------------------------------------------------
(* Relations between the commands, checked under Spec *)

\* C27 (as the specification states it): after a successful set(k, v), get(k)
\* on the same file exits with status 0 and prints v without its leading and
\* trailing whitespace, and nothing else.
SetThenGet ==
    [][(/\ cmd.op = "set"
        /\ exitCode = 0
        /\ cmd'.op = "get"
        /\ cmd'.key = cmd.key
        /\ cmd'.file = cmd.file
        /\ steps' = steps + 1)
       => /\ exitCode' = 0
          /\ stdout' = <<Msg("Value", <<>>, Trim(cmd.value))>>]_vars

\* C28 (as the specification states it): after a successful set or delete on
\* an existing file, every key of the file other than the one set or deleted
\* is still there and has the value it had.
OtherKeysUndisturbed ==
    (/\ cmd.op \in {"set", "delete"}
     /\ exitCode = 0
     /\ before[Target] # ENOENT)
    => \A k2 \in KeysOf(before[Target]) \ {cmd.key} :
          /\ k2 \in KeysOf(fs[Target])
          /\ LastValue(fs[Target], k2) = LastValue(before[Target], k2)

-----------------------------------------------------------------------------
(* Properties of the concurrent sets, checked under SpecRace *)

\* What set(k, v) writes when all it knows of the file is the content C:
\* formatEnvContent(parseEnvContent(C) with k set to v, C); a missing file
\* gives the empty mapping and no original content.
WriteFromSnapshot(C, k, v) ==
    IF C = ENOENT
    THEN formatEnvContent(SetEntry(<<>>, k, v), Undefined)
    ELSE formatEnvContent(SetEntry(parseEnvContent(C), k, v), C)

\* C29 (as the specification states it): what a set that has finished wrote
\* is computed from one content that the file held during the invocation.
WrittenFromOneSnapshot ==
    \A p \in Procs :
        (pc[p] = "done" /\ result[p] \in {"Added", "Updated"}) =>
            \E C \in held[p] : wrote[p] = WriteFromSnapshot(C, rkey[p], RaceValue(p))

====
